---- MODULE Spec2Model ----
(***************************************************************************)
(* A model of update_html.py: the batch editor that injects the preview    *)
(* script, hardens links and rewrites the Content-Security-Policy meta of  *)
(* every *.html file below SITE_ROOT.                                      *)
(*                                                                         *)
(* Text is modelled as a sequence of symbols.  A symbol is either a single *)
(* character that the code treats specially (apostrophe, double quote,     *)
(* space, semicolon, ampersand) or a run of characters that no operation   *)
(* of the code ever splits ("script-src", "self", "x", "amp", "#39").       *)
(* Every string operation of the code is computed on that sequence the way *)
(* Python computes it on the characters.                                   *)
(***************************************************************************)
EXTENDS Integers, Sequences, FiniteSets, TLC

VARIABLES
    \* --- the batch run (main, walk_and_update, process_file)
    detector,      \* which import of lines 41-53 succeeded
    rootExists,    \* SITE_ROOT.is_dir()
    disk,          \* path -> the file's bytes and markup
    orig,          \* path -> the file as it was before the first run
    writeFails,    \* the paths whose write_text raises PermissionError/OSError
    pc,            \* position of main()
    todo,          \* paths rglob has not yielded yet in this run
    visits,        \* path -> number of process_file calls in this run
    runs,          \* number of invocations of main() so far
    passes,        \* path -> completed process_file calls over all runs
    last,          \* what the most recent process_file call did
    \* --- adjust_csp_meta applied repeatedly to one meta element
    meta,          \* the meta element
    csp,           \* what the most recent adjust_csp_meta call did
    csp_runs,      \* number of applications so far
    \* --- read_file_smart applied to one file
    raw,           \* the bytes read
    read_ret       \* outcome of read_file_smart

walkVars == <<detector, rootExists, disk, orig, writeFails, pc, todo, visits,
              runs, passes, last>>
cspVars  == <<meta, csp, csp_runs>>
readVars == <<raw, read_ret>>
vars     == <<walkVars, cspVars, readVars>>

(***************************************************************************)
(* Bounds of the model.                                                    *)
(***************************************************************************)
MaxChunks == 4      \* a CSP content value is at most this many chunks long
MaxCspRuns == 2     \* applications of adjust_csp_meta to one meta element
MaxFiles == 2       \* files discovered by rglob in the multi-file runs
MaxKids == 2        \* children of body in the single-file runs
MaxRuns == 2        \* invocations of main() on the same tree
MaxConf == 10       \* a detector's confidence, in tenths, is in 0..MaxConf

None == "<none>"    \* Python's None / an absent attribute

(***************************************************************************)
(* Sequence helpers.                                                       *)
(***************************************************************************)
RECURSIVE JoinWith(_, _)
\* sep.join(ss)
JoinWith(sep, ss) ==
    IF ss = <<>> THEN <<>>
    ELSE IF Len(ss) = 1 THEN ss[1]
    ELSE ss[1] \o sep \o JoinWith(sep, Tail(ss))

RECURSIVE SplitOn(_, _)
\* s.split(c) for a one-character separator c: always at least one piece
SplitOn(c, s) ==
    IF \A i \in 1..Len(s) : s[i] # c THEN <<s>>
    ELSE LET k == CHOOSE i \in 1..Len(s) : s[i] = c /\ \A j \in 1..(i-1) : s[j] # c
         IN  <<SubSeq(s, 1, k-1)>> \o SplitOn(c, SubSeq(s, k+1, Len(s)))

RECURSIVE StripChars(_, _)
\* s.strip(chars): drop the characters of `chars` from both ends
StripChars(chars, s) ==
    IF s = <<>> THEN s
    ELSE IF s[1] \in chars THEN StripChars(chars, Tail(s))
    ELSE IF s[Len(s)] \in chars THEN StripChars(chars, SubSeq(s, 1, Len(s)-1))
    ELSE s

Strip(s) == StripChars({" "}, s)

\* s.split(): the maximal runs of non-whitespace
Words(s) == SelectSeq(SplitOn(" ", s), LAMBDA w : w # <<>>)

RECURSIVE Count(_, _)
Count(c, s) == IF s = <<>> THEN 0
               ELSE (IF Head(s) = c THEN 1 ELSE 0) + Count(c, Tail(s))

\* needle in s
Contains(needle, s) ==
    \E i \in 1..(Len(s) - Len(needle) + 1) :
        SubSeq(s, i, i + Len(needle) - 1) = needle

RECURSIVE ReplaceSym(_, _, _)
\* s.replace(c, by) for a one-character c
ReplaceSym(c, by, s) ==
    IF s = <<>> THEN <<>>
    ELSE (IF Head(s) = c THEN by ELSE <<Head(s)>>) \o ReplaceSym(c, by, Tail(s))

\* str.lower() of one symbol
Lower(sym) == IF sym = "Script-Src" THEN "script-src" ELSE sym

(***************************************************************************)
(* html.unescape: a character reference is "&" followed by "#39" or by     *)
(* "amp", with an optional ";" after it; any other "&" stays as it is.     *)
(* The replacement text is not scanned again.                              *)
(***************************************************************************)
APOS == <<"&", "#39", ";">>

RECURSIVE unescape(_)
unescape(s) ==
    IF s = <<>> THEN <<>>
    ELSE IF s[1] = "&" /\ Len(s) >= 2 /\ s[2] \in {"#39", "amp"}
    THEN LET ch   == IF s[2] = "#39" THEN "'" ELSE "&"
             used == IF Len(s) >= 3 /\ s[3] = ";" THEN 3 ELSE 2
         IN  <<ch>> \o unescape(SubSeq(s, used + 1, Len(s)))
    ELSE <<s[1]>> \o unescape(Tail(s))

(***************************************************************************)
(* read_file_smart (lines 56-78) and the detector chosen by lines 41-53.   *)
(* The bytes of a file are described by what the code asks of them:        *)
(*   utf8     raw.decode('utf-8') succeeds                                 *)
(*   enc      the encoding a detector guesses for them (None: no guess)    *)
(*   conf     the confidence of that guess, in tenths                      *)
(*   decodes  raw.decode(enc) succeeds                                     *)
(***************************************************************************)
Detectors == {"charset_normalizer", "chardet", "none"}

Half == 5           \* the 0.5 of line 71, in tenths

RawUtf8 == [utf8 |-> TRUE, enc |-> None, conf |-> 0, decodes |-> FALSE]
RawLegacy == [utf8 |-> FALSE, enc |-> "cp1251", conf |-> 9, decodes |-> TRUE]

NotRead == [kind |-> "notrun", tier |-> 0, exc |-> None]

\* lines 67-75 with detect_encoding = chardet.detect, which returns a dict
\* holding 'encoding' and 'confidence'
read_with_chardet(b) ==
    IF b.enc # None /\ b.conf > Half /\ b.decodes
    THEN [kind |-> "text", tier |-> 2, exc |-> None]
    ELSE [kind |-> "text", tier |-> 3, exc |-> None]

\* lines 67-69 with detect_encoding = charset_normalizer.from_bytes, which
\* returns a CharsetMatches object: it has no get(), so line 69 raises
read_with_charset_normalizer(b) ==
    [kind |-> "raise", tier |-> 0, exc |-> "AttributeError"]

read_file_smart(b, det) ==
    IF b.utf8 THEN [kind |-> "text", tier |-> 1, exc |-> None]
    ELSE IF det = "charset_normalizer" THEN read_with_charset_normalizer(b)
    ELSE IF det = "chardet" THEN read_with_chardet(b)
    ELSE [kind |-> "text", tier |-> 3, exc |-> None]

(***************************************************************************)
(* adjust_csp_meta (lines 132-177).  A meta element is                     *)
(* [present, http_equiv, has_content, content].                            *)
(***************************************************************************)
NoMeta == [present |-> FALSE, http_equiv |-> None, has_content |-> FALSE,
           content |-> <<>>]

\* the regular expression of lines 139-141, re.IGNORECASE
is_csp(http_equiv) ==
    http_equiv \in {"Content-Security-Policy", "X-Content-Security-Policy",
                    "content-security-policy", "x-content-security-policy"}

\* line 149: [d.strip() for d in decoded.split(';') if d.strip()]
directives(decoded) ==
    LET pieces   == SplitOn(";", decoded)
        stripped == [i \in 1..Len(pieces) |-> Strip(pieces[i])]
    IN  SelectSeq(stripped, LAMBDA d : d # <<>>)

\* line 154: d.lower().startswith('script-src')
is_script_src(d) == d # <<>> /\ Lower(d[1]) = "script-src"

\* has_self without the strip of line 157: the tokens compared as written
has_self_unstripped(sources) ==
    \E i \in 1..Len(sources) : sources[i] = <<"self">>

\* line 157: any(src.strip("'\"") == 'self' for src in sources)
has_self(sources) ==
    \E i \in 1..Len(sources) : StripChars({"'", "\""}, sources[i]) = <<"self">>

SELF == <<"'", "self", "'">>

\* lines 155-159: the rewritten script-src directive
script_src(d) ==
    LET parts   == Words(d)
        sources == Tail(parts)
        added   == IF has_self(sources) THEN sources ELSE Append(sources, SELF)
    IN  <<"script-src", " ">> \o JoinWith(<<" ">>, added)

\* lines 151-165
new_directives(ds) ==
    LET out == [i \in 1..Len(ds) |->
                   IF is_script_src(ds[i]) THEN script_src(ds[i]) ELSE ds[i]]
        script_src_found == \E i \in 1..Len(ds) : is_script_src(ds[i])
    IN  IF script_src_found THEN out
        ELSE Append(out, <<"script-src", " ">> \o SELF)

\* quote_style without lines 170-171: the apostrophes always left literal
quote_style_literal(raw_content, joined) == joined

\* lines 170-171: the entity style of the original is put back
quote_style(raw_content, joined) ==
    IF Contains(APOS, raw_content) THEN ReplaceSym("'", APOS, joined)
    ELSE joined

\* lines 167-171
new_content(raw_content, dirs) ==
    quote_style(raw_content, JoinWith(<<";", " ">>, dirs))

\* the whole of adjust_csp_meta applied to the meta element soup.find returns
\* (NoMeta when it returns None): the return value (ret), the element before
\* and after the call, whether lines 146-173 were reached (rewrote) and the
\* list new_directives as line 167 joins it
adjust_csp_meta(m) ==
    IF ~m.present \/ ~is_csp(m.http_equiv) \/ ~m.has_content
    THEN [ret |-> FALSE, before |-> m, meta |-> m, rewrote |-> FALSE,
          new_directives |-> <<>>]
    ELSE LET nd == new_directives(directives(unescape(m.content)))
             nc == new_content(m.content, nd)
         IN  IF nc = m.content
             THEN [ret |-> FALSE, before |-> m, meta |-> m, rewrote |-> TRUE,
                   new_directives |-> nd]
             ELSE [ret |-> TRUE, before |-> m,
                   meta |-> [m EXCEPT !.content = nc],
                   rewrote |-> TRUE, new_directives |-> nd]

(***************************************************************************)
(* The document tree.  An element is [tag, src, target, rel]; an attribute *)
(* the element does not have is None.  A tree (soup) is                    *)
(*   root     the children of the document root other than body            *)
(*   hasBody  whether soup.body exists                                     *)
(*   body     the children of body                                         *)
(*   meta     the meta element soup.find returns for line 138              *)
(* A file on disk is [bytes, markup]: the markup is a tree whose meta      *)
(* content is the attribute as written in the file (entities escaped) and  *)
(* which may hold comments.                                                *)
(***************************************************************************)
Anchor(target, rel) == [tag |-> "a", src |-> None, target |-> target, rel |-> rel]
Script(src) == [tag |-> "script", src |-> src, target |-> None, rel |-> None]
CommentNode == [tag |-> "comment", src |-> None, target |-> None, rel |-> None]

EmptySoup == [root |-> <<>>, hasBody |-> FALSE, body |-> <<>>, meta |-> NoMeta]

\* formatter="html" of line 195 on an attribute value: "&" becomes "&amp;"
escape_html(value) == ReplaceSym("&", <<"&", "amp", ";">>, value)

\* BeautifulSoup(original_html, 'html.parser'): attribute values are unescaped
parse(markup) ==
    [markup EXCEPT !.meta.content = unescape(markup.meta.content)]

\* soup.prettify(formatter="html")
prettify(soup) ==
    [soup EXCEPT !.meta.content = escape_html(soup.meta.content)]

\* lines 187-188: every comment is extracted from the tree
strip_comments(soup) ==
    [soup EXCEPT !.root = SelectSeq(soup.root, LAMBDA n : n.tag # "comment"),
                 !.body = SelectSeq(soup.body, LAMBDA n : n.tag # "comment")]

\* src_matches without re.IGNORECASE and with \Z for $: the path compared exactly
src_matches_exact(src) == src = "/preview.js"

\* line 104: re.compile(r'^/preview\.js$', re.IGNORECASE) searched in src;
\* "$" also matches before a newline that ends the string
src_matches(src) ==
    src \in {"/preview.js", "/PREVIEW.JS", "/preview.js\n", "/PREVIEW.JS\n"}

\* the elements of the whole tree
Elements(soup) == soup.root \o soup.body

\* line 104: soup.find('script', src=...)
find_script(soup) ==
    \E i \in 1..Len(Elements(soup)) :
        /\ Elements(soup)[i].tag = "script"
        /\ Elements(soup)[i].src # None
        /\ src_matches(Elements(soup)[i].src)

\* lines 102-112
ensure_script(soup) ==
    IF find_script(soup) THEN [ret |-> FALSE, soup |-> soup]
    ELSE LET new_tag == Script("/preview.js")
         IN  IF soup.hasBody
             THEN [ret |-> TRUE, soup |-> [soup EXCEPT !.body = Append(@, new_tag)]]
             ELSE [ret |-> TRUE, soup |-> [soup EXCEPT !.root = Append(@, new_tag)]]

\* lines 119-122 on one element
harden(n) ==
    IF n.tag = "a" /\ n.target = None
    THEN [n EXCEPT !.target = "_blank", !.rel = "noopener noreferrer"]
    ELSE n

\* lines 115-124
add_target_blank(soup) ==
    LET after == [soup EXCEPT !.root = [i \in 1..Len(soup.root) |-> harden(soup.root[i])],
                              !.body = [i \in 1..Len(soup.body) |-> harden(soup.body[i])]]
        changed == \E i \in 1..Len(Elements(soup)) :
                       Elements(soup)[i].tag = "a" /\ Elements(soup)[i].target = None
    IN  [ret |-> changed, soup |-> after]

\* line 129: ensure_script(soup) or add_target_blank(soup); the right operand
\* is evaluated only when the left one is False
adjust_body(soup) ==
    LET e == ensure_script(soup)
    IN  IF e.ret
        THEN [ret |-> TRUE, soup |-> e.soup, script |-> TRUE, links |-> "not run"]
        ELSE LET a == add_target_blank(e.soup)
             IN  [ret |-> a.ret, soup |-> a.soup, script |-> FALSE,
                  links |-> IF a.ret THEN "changed" ELSE "unchanged"]

\* must_write without csp_changed: a change of the CSP meta alone is not written
must_write_body_only(body_changed, csp_changed) == body_changed

\* line 193
must_write(body_changed, csp_changed) == body_changed \/ csp_changed

\* what a process_file call leaves behind when nothing has been called yet
EmptyFile == [bytes |-> RawUtf8, markup |-> EmptySoup]

\* lines 81-93: write_text either replaces the file or raises PermissionError
\* or OSError, which is caught and logged; the file as it is afterwards
write_file_utf8(file, text, fails) ==
    IF fails THEN file ELSE [bytes |-> RawUtf8, markup |-> text]

NoCall == [path |-> 0, read |-> NotRead, before |-> EmptyFile,
           soup |-> EmptySoup, script |-> FALSE, links |-> "not run",
           body_changed |-> FALSE, csp_changed |-> FALSE, write |-> "none",
           written |-> EmptySoup, raised |-> FALSE]

\* lines 180-198 for the file at `path`, whose write fails iff `fails`:
\* the record of the call and the file afterwards
process_file(path, file, det, fails) ==
    LET read == read_file_smart(file.bytes, det)
    IN  IF read.kind = "raise"
        THEN [call |-> [NoCall EXCEPT !.path = path, !.read = read,
                                      !.before = file, !.raised = TRUE],
              file |-> file]
        ELSE LET soup == strip_comments(parse(file.markup))
                 b    == adjust_body(soup)
                 c    == adjust_csp_meta(b.soup.meta)
                 tree == [b.soup EXCEPT !.meta = c.meta]
                 text == prettify(tree)
                 wr   == IF ~must_write(b.ret, c.ret) THEN "none"
                         ELSE IF fails THEN "failed" ELSE "ok"
             IN  [call |-> [path |-> path, read |-> read,
                            before |-> file, soup |-> tree,
                            script |-> b.script, links |-> b.links,
                            body_changed |-> b.ret, csp_changed |-> c.ret,
                            write |-> wr,
                            written |-> IF wr = "none" THEN EmptySoup ELSE text,
                            raised |-> FALSE],
                  file |-> IF wr = "none" THEN file
                           ELSE write_file_utf8(file, text, fails)]

(***************************************************************************)
(* The three groups of variables at rest.                                  *)
(***************************************************************************)
IdleCsp == /\ meta = NoMeta /\ csp_runs = 0
           /\ csp = adjust_csp_meta(NoMeta)
IdleRead == raw = RawUtf8 /\ read_ret = NotRead
IdleWalk == /\ rootExists = FALSE /\ disk = <<>> /\ orig = <<>>
            /\ writeFails = {} /\ pc = "idle" /\ todo = {} /\ visits = <<>>
            /\ runs = 0 /\ passes = <<>> /\ last = NoCall

(***************************************************************************)
(* SpecCsp: adjust_csp_meta applied again and again to one meta element.   *)
(* The content values the checks start from are the concatenations of at   *)
(* most MaxChunks of these chunks.                                         *)
(***************************************************************************)
Chunks == { <<"script-src">>, <<"Script-Src">>, <<" ">>, <<";">>,
            <<"x">>, <<"&">>, <<"amp">>, APOS,
            <<" ">> \o SELF,
            <<" ">> \o APOS \o <<"self">> \o APOS,
            <<"\"", "self", "\"">> }

RECURSIVE Contents(_)
Contents(n) ==
    IF n = 0 THEN {<<>>}
    ELSE LET shorter == Contents(n - 1)
         IN  shorter \cup {c \o k : c \in shorter, k \in Chunks}

CspMeta(c) == [present |-> TRUE, http_equiv |-> "Content-Security-Policy",
               has_content |-> TRUE, content |-> c]

InitCsp ==
    /\ meta \in {CspMeta(c) : c \in Contents(MaxChunks)}
                \cup {NoMeta}
                \cup {[CspMeta(c) EXCEPT !.http_equiv = h] :
                        c \in Contents(1),
                        h \in {"x-content-security-policy", "refresh"}}
                \cup {[CspMeta(<<>>) EXCEPT !.has_content = FALSE]}
    /\ csp = adjust_csp_meta(NoMeta)
    /\ csp_runs = 0
    /\ detector = "none"
    /\ IdleRead
    /\ IdleWalk

\* one call of adjust_csp_meta on the tree that holds the meta element
AdjustCspMeta ==
    /\ csp_runs < MaxCspRuns
    /\ csp' = adjust_csp_meta(meta)
    /\ meta' = csp'.meta
    /\ csp_runs' = csp_runs + 1
    /\ UNCHANGED <<walkVars, readVars>>

NextCsp == AdjustCspMeta

SpecCsp == InitCsp /\ [][NextCsp]_vars

(***************************************************************************)
(* SpecRead: read_file_smart applied to one file, for every description of *)
(* its bytes and every detector.                                           *)
(***************************************************************************)
Raws == [utf8 : BOOLEAN, enc : {None, "cp1251", "bogus"}, conf : 0..MaxConf,
         decodes : BOOLEAN]

InitRead ==
    /\ raw \in {b \in Raws : (b.enc \in {None, "bogus"} => ~b.decodes)
                             /\ (b.enc = None => b.conf = 0)}
    /\ read_ret = NotRead
    /\ detector \in Detectors
    /\ IdleCsp
    /\ IdleWalk

ReadFileSmart ==
    /\ read_ret = NotRead
    /\ read_ret' = read_file_smart(raw, detector)
    /\ UNCHANGED <<raw, walkVars, cspVars>>

NextRead == ReadFileSmart

SpecRead == InitRead /\ [][NextRead]_vars

(***************************************************************************)
(* The batch run: main (lines 216-224), walk_and_update (204-210) and one  *)
(* process_file call per file rglob yields.  The script may be invoked     *)
(* again on the same tree once it has ended.                               *)
(***************************************************************************)
RECURSIVE SeqUpTo(_, _)
SeqUpTo(S, n) ==
    IF n = 0 THEN {<<>>}
    ELSE LET shorter == SeqUpTo(S, n - 1)
         IN  shorter \cup {Append(q, e) : q \in shorter, e \in S}

\* the elements the files start with
InitNodes == { Anchor(None, None), Anchor("_self", None),
               Script("/PREVIEW.JS"), Script("/preview.js\n"),
               Script("/other.js"), CommentNode }

\* the meta elements the files start with, as written in the file
InitMetas == { NoMeta,
               CspMeta(<<"x">>),
               CspMeta(<<"script-src", " ">> \o SELF),
               CspMeta(<<"script-src", " ">> \o APOS \o <<"self">> \o APOS),
               [CspMeta(<<"x">>) EXCEPT !.http_equiv = "refresh"] }

\* the children of the root, other than body, the files start with
InitRootNodes == { Anchor(None, None), Script("/PREVIEW.JS"), CommentNode }

Markups(bodies, hasBody) ==
    { [root |-> r, hasBody |-> hasBody, body |-> k, meta |-> m] :
        r \in SeqUpTo(InitRootNodes, 1), k \in bodies, m \in InitMetas }

\* the files of the single-file runs
RichFiles ==
    { [bytes |-> b, markup |-> t] :
        b \in {RawUtf8, RawLegacy},
        t \in Markups(SeqUpTo(InitNodes, MaxKids), TRUE)
                \cup Markups({<<>>}, FALSE) }

\* the files of the multi-file runs
PlainFiles ==
    { [bytes |-> b,
       markup |-> [root |-> <<>>, hasBody |-> TRUE, body |-> k, meta |-> NoMeta]] :
        b \in {RawUtf8, RawLegacy},
        k \in {<<Anchor("_self", None)>>,
               <<Script("/preview.js"), Anchor(None, None)>>} }

InitWalkWith(fs) ==
    /\ disk \in fs
    /\ orig = disk
    /\ writeFails \in SUBSET (DOMAIN disk)
    /\ rootExists \in BOOLEAN
    /\ detector \in Detectors
    /\ pc = "idle"
    /\ todo = {}
    /\ visits = [f \in DOMAIN disk |-> 0]
    /\ passes = [f \in DOMAIN disk |-> 0]
    /\ runs = 0
    /\ last = NoCall
    /\ IdleCsp
    /\ IdleRead

\* one file, of every shape
Init == InitWalkWith([{1} -> RichFiles])

\* MaxFiles files
InitWalk == InitWalkWith([1..MaxFiles -> PlainFiles])

\* lines 216-220: main() up to the call of walk_and_update
Main ==
    /\ pc \in {"idle", "exit", "crashed", "done"}
    /\ runs < MaxRuns
    /\ runs' = runs + 1
    /\ visits' = [f \in DOMAIN disk |-> 0]
    /\ IF rootExists
       THEN pc' = "walking" /\ todo' = DOMAIN disk
       ELSE pc' = "exit" /\ todo' = {}
    /\ UNCHANGED <<detector, rootExists, disk, orig, writeFails, passes, last,
                   cspVars, readVars>>

\* lines 209-210: rglob yields the path f and process_file(f) runs; an
\* exception it raises ends the process
ProcessFile(f) ==
    /\ pc = "walking"
    /\ f \in todo
    /\ LET r == process_file(f, disk[f], detector, f \in writeFails)
       IN  /\ last' = r.call
           /\ disk' = [disk EXCEPT ![f] = r.file]
           /\ IF r.call.raised
              THEN pc' = "crashed" /\ UNCHANGED <<todo, visits, passes>>
              ELSE /\ pc' = pc
                   /\ todo' = todo \ {f}
                   /\ visits' = [visits EXCEPT ![f] = @ + 1]
                   /\ passes' = [passes EXCEPT ![f] = @ + 1]
    /\ UNCHANGED <<detector, rootExists, orig, writeFails, runs, cspVars, readVars>>

\* lines 220-224: walk_and_update returns and the summary is printed
Summary ==
    /\ pc = "walking"
    /\ todo = {}
    /\ pc' = "done"
    /\ UNCHANGED <<detector, rootExists, disk, orig, writeFails, todo, visits,
                   runs, passes, last, cspVars, readVars>>

Next == Main \/ (\E f \in DOMAIN disk : ProcessFile(f)) \/ Summary

Spec == Init /\ [][Next]_vars

SpecWalk == InitWalk /\ [][Next]_vars

(***************************************************************************)
(* Claims about adjust_csp_meta, checked under SpecCsp.                    *)
(***************************************************************************)
\* what the last call read and wrote
RawContent == csp.before.content
OutContent == csp.meta.content
InDirectives == directives(unescape(RawContent))

\* the name of a directive is its first word; it is script-src when the whole
\* name, lower-cased, is script-src
NamedScriptSrc(d) ==
    LET name == Words(d)[1]
    IN  Len(name) = 1 /\ Lower(name[1]) = "script-src"

IsSelfToken(t) == StripChars({"'", "\""}, t) = <<"self">>

\* C3: once adjust_csp_meta has been applied to a content value, every further
\* application reports unchanged and leaves the content attribute identical.
C3_Idempotent ==
    csp_runs >= 2 => (csp.ret = FALSE /\ csp.meta = csp.before)

\* C4: every directive whose name is not script-src is emitted unchanged and in
\* its original relative order; with no script-src directive in the input the
\* output is the original directives followed by script-src 'self'.
C4_OthersPreserved ==
    csp.rewrote =>
        /\ SelectSeq(csp.new_directives, LAMBDA d : ~NamedScriptSrc(d))
             = SelectSeq(InDirectives, LAMBDA d : ~NamedScriptSrc(d))
        /\ (\A i \in 1..Len(InDirectives) : ~NamedScriptSrc(InDirectives[i]))
             => csp.new_directives
                  = Append(InDirectives, <<"script-src", " ">> \o SELF)

\* the source tokens of a directive: its words after the name
Tokens(d) == Tail(Words(d))

\* a content value in normalized form that already allows self: no character
\* reference, directives joined by "; ", words joined by one space, and a
\* lower-case script-src directive holding a self token wherever a directive
\* starts with script-src
Normalized(c) ==
    LET ds == directives(c)
    IN  /\ Count("&", c) = 0
        /\ c = JoinWith(<<";", " ">>, ds)
        /\ \A i \in 1..Len(ds) : ds[i] = JoinWith(<<" ">>, Words(ds[i]))
        /\ \E i \in 1..Len(ds) : NamedScriptSrc(ds[i])
        /\ \A i \in 1..Len(ds) :
              Lower(ds[i][1]) = "script-src" =>
                  /\ Words(ds[i])[1] = <<"script-src">>
                  /\ \E k \in 1..Len(Tokens(ds[i])) : IsSelfToken(Tokens(ds[i])[k])

\* C5: a script-src directive keeps its source tokens in order and gets 'self'
\* appended once, as the last token, exactly when no token is self after its
\* quotes are stripped; the directive is re-joined with single spaces, and a
\* value already in normalized form is reported unchanged.
C5_SelfAppendedOnce ==
    csp.rewrote =>
        /\ \A i \in 1..Len(InDirectives) :
              NamedScriptSrc(InDirectives[i]) =>
                 LET toks == Tokens(InDirectives[i])
                     out  == csp.new_directives[i]
                     had  == \E k \in 1..Len(toks) : IsSelfToken(toks[k])
                 IN  /\ out = JoinWith(<<" ">>, Words(out))
                     /\ Words(out) = <<<<"script-src">>>> \o toks
                                       \o (IF had THEN <<>> ELSE <<SELF>>)
        /\ Normalized(RawContent) => (csp.ret = FALSE /\ OutContent = RawContent)

\* C5's case: a script-src directive with a source but no self gets it appended
C5_Witness ==
    /\ csp.rewrote /\ csp.ret
    /\ \E i \in 1..Len(InDirectives) :
          /\ NamedScriptSrc(InDirectives[i])
          /\ Len(Tokens(InDirectives[i])) >= 1
          /\ \A k \in 1..Len(Tokens(InDirectives[i])) :
                ~IsSelfToken(Tokens(InDirectives[i])[k])

\* the string line 167 builds
Joined == JoinWith(<<";", " ">>, csp.new_directives)

Called == last.path # 0 /\ ~last.raised

\* the tree process_file parsed in its last call, comments extracted
ParsedBefore == strip_comments(parse(last.before.markup))

Max(a, b) == IF a >= b THEN a ELSE b

Scripts(soup) == SelectSeq(Elements(soup), LAMBDA n : n.tag = "script")

\* C1: the second of two process_file runs on a file (the first one written)
\* reports no change and leaves the file as the first run left it.
C1_SecondRunNoChange ==
    (Called /\ passes[last.path] >= 2 /\ last.path \notin writeFails) =>
        /\ ~last.body_changed
        /\ ~last.csp_changed
        /\ last.write = "none"
        /\ disk[last.path] = last.before

\* C2: a document without the preview script and without a CSP meta has, after
\* one process_file pass, every anchor that lacked target hardened, the new
\* script as the last child of body, and is reported changed.
C2_InjectAndHarden ==
    (Called /\ ~find_script(ParsedBefore)
            /\ ~(last.before.markup.meta.present
                 /\ is_csp(last.before.markup.meta.http_equiv))
            /\ last.before.markup.hasBody) =>
        /\ last.soup.root = add_target_blank(ParsedBefore).soup.root
        /\ last.soup.body = Append(add_target_blank(ParsedBefore).soup.body,
                                   Script("/preview.js"))
        /\ \A i \in 1..Len(Elements(last.soup)) :
              Elements(last.soup)[i].tag = "a" => Elements(last.soup)[i].target # None
        /\ last.body_changed
        /\ last.write # "none"

\* a src that the pattern of line 104 accepts: /preview.js in any case, with
\* or without one newline after it
IsPreviewSrc(src) ==
    src \in {"/preview.js", "/PREVIEW.JS", "/preview.js\n", "/PREVIEW.JS\n"}

\* a src that equals /preview.js when case is ignored
EqualsPreviewSrc(src) == src \in {"/preview.js", "/PREVIEW.JS"}

PreviewCount(soup) ==
    Len(SelectSeq(Scripts(soup), LAMBDA n : n.src # None /\ IsPreviewSrc(n.src)))

EqualCount(soup) ==
    Len(SelectSeq(Scripts(soup), LAMBDA n : n.src # None /\ EqualsPreviewSrc(n.src)))

\* what C7 says of the place of the new script and of the untouched document
C7_Placement ==
    Called =>
        /\ last.script <=> PreviewCount(ParsedBefore) = 0
        /\ last.script =>
              IF last.soup.hasBody
              THEN /\ last.soup.body = Append(ParsedBefore.body, Script("/preview.js"))
                   /\ last.soup.root = ParsedBefore.root
              ELSE /\ last.soup.root = Append(ParsedBefore.root, Script("/preview.js"))
                   /\ last.soup.body = ParsedBefore.body
        /\ ~last.script => Scripts(last.soup) = Scripts(ParsedBefore)

\* C7 as stated: after any number of runs the number of scripts whose src
\* equals /preview.js, case ignored, is max(initial count, 1).
C7_EqualCount ==
    Called =>
        /\ EqualCount(last.soup) = Max(EqualCount(orig[last.path].markup), 1)
        /\ last.script <=> EqualCount(ParsedBefore) = 0

\* C7 as amended: after any number of runs the number of scripts whose src the
\* pattern ^/preview\.js$ accepts (case ignored, one trailing newline allowed)
\* is max(initial count, 1); a document with none gains one, as the last child
\* of body or else of the root, and a document with one is not modified.
C7_PreviewCount ==
    /\ Called => PreviewCount(last.soup)
                   = Max(PreviewCount(orig[last.path].markup), 1)
    /\ \A f \in DOMAIN disk :
          passes[f] >= 1 /\ f \notin writeFails =>
              PreviewCount(disk[f].markup)
                 = Max(PreviewCount(orig[f].markup), 1)
    /\ C7_Placement

\* C7's case: a second run on a file that gained its script in the first
C7_Witness ==
    /\ Called /\ passes[last.path] >= 2 /\ ~last.script
    /\ PreviewCount(orig[last.path].markup) = 0
    /\ PreviewCount(disk[last.path].markup) = 1

HasComment(markup) ==
    \E i \in 1..Len(Elements(markup)) : Elements(markup)[i].tag = "comment"

\* C8: process_file writes exactly when a mutator reported a change; without
\* one the file on disk stays as it was, comments included, and what is
\* written is the serialization of the whole tree.
C8_WriteIffChanged ==
    last.path # 0 =>
        /\ last.write # "none"
              <=> (last.script \/ last.links = "changed" \/ last.csp_changed)
        /\ last.write \in {"none", "failed"} => disk[last.path] = last.before
        /\ last.write # "none" => last.written = prettify(last.soup)
        /\ last.write = "ok" =>
              disk[last.path] = [bytes |-> RawUtf8, markup |-> last.written]

\* C8's case: comments were extracted from the tree, no mutator reported a
\* change, and the file still holds its comments
C8_Witness ==
    /\ Called /\ last.write = "none"
    /\ HasComment(last.before.markup)
    /\ ~HasComment(last.soup)
    /\ HasComment(disk[last.path].markup)

(***************************************************************************)
(* Claims about walk_and_update, checked under SpecWalk (MaxFiles files).  *)
(***************************************************************************)
\* C9: whatever files have failing writes, a run that has ended has processed
\* every discovered file exactly once and reached its summary.
C9_EveryFileOnce ==
    /\ pc \in {"done", "crashed"} =>
          /\ pc = "done"
          /\ \A f \in DOMAIN disk : visits[f] = 1
    /\ pc = "walking" => \A f \in DOMAIN disk : visits[f] = IF f \in todo THEN 0 ELSE 1

(***************************************************************************)
(* Claims about read_file_smart, checked under SpecRead.                   *)
(***************************************************************************)
\* C10: read_file_smart always returns text: by the strict decode when the
\* bytes are valid UTF-8, else by the detected encoding when there is one, its
\* confidence is above 0.5 and decoding succeeds, else by the lossy decode.
C10_AlwaysText ==
    read_ret # NotRead =>
        /\ read_ret.kind = "text"
        /\ read_ret.tier =
              IF raw.utf8 THEN 1
              ELSE IF detector # "none" /\ raw.enc # None /\ raw.conf > Half
                      /\ raw.decodes
              THEN 2
              ELSE 3

====
